---- MODULE Spec2Model ----
(***************************************************************************)
(* State-machine model of scriptflow-cli (bin/index.js).                   *)
(*                                                                         *)
(* The state is what survives between two invocations of the tool: the     *)
(* settings document (config.json), the storage roots on disk (registry    *)
(* file flows.json, per-flow folders, script files), the working directory *)
(* of the process, and what the last invocation reported on the console.   *)
(* Every verb of the command line is one action that models the whole      *)
(* handler.  The update check (checkForUpdates) and failures of the        *)
(* settings file itself are outside the model.                             *)
(***************************************************************************)
EXTENDS Integers, Sequences, FiniteSets, TLC

(***************************************************************************)
(* Bounds and input alphabets                                              *)
(***************************************************************************)
MaxNameLen == 1

MaxCmdLen == 3

InputChars == {"a", "b", "!"}

Roots == {"home", "alt"}

ExistingDirs == {"shell", "proj"}

WorkDirs == {"proj", "gone"}

Choices == {"Move To New Location", "Delete Existing Flows", "Cancel"}

ProfileChoices == {"bash", "zsh", "powershell", "cmd"}

InitProfiles == {"bash", "fish"}

CommandInputs == {<<>>, <<"x">>, <<"x", ",", "y">>}

CommandChars == {"x", "y", ","}

AnswerNames == {<<"a">>, <<"b">>}

RECURSIVE SeqsUpTo(_, _)
SeqsUpTo(S, n) ==
    IF n = 0 THEN {<<>>}
    ELSE LET shorter == SeqsUpTo(S, n - 1)
         IN  shorter \cup {Append(s, c) : s \in shorter, c \in S}

InputNames == SeqsUpTo(InputChars, MaxNameLen)

CommandStrings == SeqsUpTo(CommandChars, MaxCmdLen)

(***************************************************************************)
(* The name pattern /^[a-zA-Z0-9-_]+$/ (lines 90, 115)                     *)
(***************************************************************************)
LowerCase == {"a", "b", "c", "d", "e", "f", "g", "h", "i", "j", "k", "l", "m",
              "n", "o", "p", "q", "r", "s", "t", "u", "v", "w", "x", "y", "z"}

UpperCase == {"A", "B", "C", "D", "E", "F", "G", "H", "I", "J", "K", "L", "M",
              "N", "O", "P", "Q", "R", "S", "T", "U", "V", "W", "X", "Y", "Z"}

Digits == {"0", "1", "2", "3", "4", "5", "6", "7", "8", "9"}

NamePatternTest(value) ==
    /\ Len(value) >= 1
    /\ \A i \in 1..Len(value) :
           value[i] \in LowerCase \cup UpperCase \cup Digits \cup {"-", "_"}

(***************************************************************************)
(* Disk                                                                    *)
(***************************************************************************)
NoFile == [state |-> "absent", data |-> <<>>]

CorruptFile == [state |-> "corrupt", data |-> <<>>]

JsonFile(flows) == [state |-> "json", data |-> flows]

AbsentTree == [exists |-> FALSE, flows |-> NoFile, folders |-> {}, scripts |-> {}]

EmptyTree == [exists |-> TRUE, flows |-> NoFile, folders |-> {}, scripts |-> {}]

VARIABLES config, fs, cwd, last

vars == <<config, fs, cwd, last>>

(***************************************************************************)
(* Script generation (createFlow, lines 155-180)                           *)
(***************************************************************************)
\* Variant of ReplaceAll: only the first occurrence is replaced.
ReplaceFirst(text, ch, by) ==
    IF \E i \in 1..Len(text) : text[i] = ch
    THEN LET k == CHOOSE i \in 1..Len(text) :
                     text[i] = ch /\ \A j \in 1..(i - 1) : text[j] # ch
         IN  SubSeq(text, 1, k - 1) \o by \o SubSeq(text, k + 1, Len(text))
    ELSE text

\* String.prototype.replaceAll, lines 160-174
RECURSIVE ReplaceAll(_, _, _)
ReplaceAll(text, ch, by) ==
    IF text = <<>> THEN <<>>
    ELSE (IF Head(text) = ch THEN by ELSE <<Head(text)>>)
         \o ReplaceAll(Tail(text), ch, by)

KnownProfile(profile) == profile \in {"bash", "zsh", "powershell", "cmd"}

ScriptHeader(profile) ==
    CASE profile = "bash"       -> <<"#!/bin/bash">>
      [] profile = "zsh"        -> <<"#!/bin/zsh">>
      [] profile = "powershell" -> <<"# PowerShell script content here">>
      [] profile = "cmd"        -> <<"@echo off">>

ScriptJoin(profile) ==
    CASE profile = "bash"       -> <<"\n", "\n">>
      [] profile = "zsh"        -> <<"\n", "\n">>
      [] profile = "powershell" -> <<"\n">>
      [] profile = "cmd"        -> <<"\n">>

ScriptFileExtension(profile) ==
    CASE profile = "bash"       -> ".sh"
      [] profile = "zsh"        -> ".sh"
      [] profile = "powershell" -> ".ps1"
      [] profile = "cmd"        -> ".bat"
      [] OTHER                  -> ""

\* Both start as '' (lines 155-156) and keep that value when no case matches.
ScriptContent(profile, commands) ==
    IF KnownProfile(profile)
    THEN ScriptHeader(profile) \o <<"\n", "\n">>
             \o ReplaceAll(commands, ",", ScriptJoin(profile))
    ELSE <<>>

(***************************************************************************)
(* Flow records and the registry file (loadFlows / saveFlows)              *)
(***************************************************************************)
\* path.join(config.flowCommandDir, flowName), line 183
CommandFolder(commandDir, flowName) == Append(commandDir, flowName)

\* path.join(commandFolder, `script${scriptFileExtension}`), line 187
ScriptFile(commandFolder, ext) == [folder |-> commandFolder, ext |-> ext]

FlowRecord(flowName, flowPath, scriptFile) ==
    [name |-> flowName, path |-> flowPath, script |-> scriptFile]

\* loadFlows, lines 294-311: a missing file and a file that does not parse
\* both give the empty list.
LoadFlows(cfg, disk) ==
    LET flowsFile == disk[cfg.flowDir].flows
    IN  IF flowsFile.state = "absent" THEN <<>>
        ELSE IF flowsFile.state = "corrupt" THEN <<>>
        ELSE flowsFile.data

\* Variant of SaveFlows: the records are written last one first.
SaveFlowsNewestFirst(cfg, disk, flows, writeOk) ==
    IF writeOk /\ disk[cfg.flowDir].exists
    THEN [disk EXCEPT ![cfg.flowDir].flows =
             JsonFile([i \in 1..Len(flows) |-> flows[Len(flows) + 1 - i]])]
    ELSE disk

\* saveFlows, lines 313-322: a failed write is logged and swallowed.
SaveFlows(cfg, disk, flows, writeOk) ==
    IF writeOk /\ disk[cfg.flowDir].exists
    THEN [disk EXCEPT ![cfg.flowDir].flows = JsonFile(flows)]
    ELSE disk

\* Variant of FindIndex: a miss gives the index of the last record.
FindIndexOrLast(flows, flowName) ==
    IF \E i \in 1..Len(flows) : flows[i].name = flowName
    THEN (CHOOSE i \in 1..Len(flows) :
              /\ flows[i].name = flowName
              /\ \A j \in 1..(i - 1) : flows[j].name # flowName) - 1
    ELSE Len(flows) - 1

\* Array.prototype.findIndex with (f) => f.name === flowName: 0-based, -1 when
\* no record matches.
FindIndex(flows, flowName) ==
    IF \E i \in 1..Len(flows) : flows[i].name = flowName
    THEN (CHOOSE i \in 1..Len(flows) :
              /\ flows[i].name = flowName
              /\ \A j \in 1..(i - 1) : flows[j].name # flowName) - 1
    ELSE -1

\* flows.splice(flowIndex, 1), line 285
Splice(flows, flowIndex) ==
    [i \in 1..(Len(flows) - 1) |->
        IF i <= flowIndex THEN flows[i] ELSE flows[i + 1]]

\* Variant of ListedNames: the names are printed last record first.
ListedNamesReversed(flows) ==
    [i \in 1..Len(flows) |-> flows[Len(flows) + 1 - i].name]

\* flows.forEach((flow) => console.log(flow.name)), lines 220-222
ListedNames(flows) == [i \in 1..Len(flows) |-> flows[i].name]

\* A script path is absolute: its first component is the storage root it was
\* created under, its third the per-flow folder.
RootOf(scriptFile) == scriptFile.folder[1]

FolderOf(scriptFile) == scriptFile.folder[3]

ScriptExists(disk, scriptFile) ==
    /\ disk[RootOf(scriptFile)].exists
    /\ \E f \in disk[RootOf(scriptFile)].scripts :
           f.folder = FolderOf(scriptFile) /\ f.ext = scriptFile.ext

(***************************************************************************)
(* Settings (config.json)                                                  *)
(***************************************************************************)
\* path.join(config.flowDir, 'commands'), lines 66, 372, 457
CommandDir(root) == <<root, "commands">>

\* resetConfig, lines 454-462
DefaultConfig ==
    [flowDir |-> "home", flowCommandDir |-> CommandDir("home"),
     terminalProfile |-> "bash", defaultFlowPath |-> ".", initialized |-> FALSE]

NotInitialized ==
    "Flow manager is not initialized. Please run \"flow init\" to initialize it."

(***************************************************************************)
(* What an invocation reports                                              *)
(***************************************************************************)
\* op and arg: the verb and its name argument; choice: the answer to the
\* Move/Delete/Cancel question ("" when it was not asked); outcome: the message
\* that tells how the handler ended; listing: the names list printed; child
\* and console: what the subprocess of run/edit did and what was printed of
\* it; startDir: the working directory the handler was entered with.
NoChild == [spawned |-> FALSE, exit |-> -1, stdout |-> "", stderr |-> ""]

Report(op, arg, choice, outcome, listing, child, console) ==
    [op |-> op, arg |-> arg, choice |-> choice, outcome |-> outcome,
     listing |-> listing, child |-> child, console |-> console,
     startDir |-> cwd]

Say(op, arg, outcome) == Report(op, arg, "", outcome, <<>>, NoChild, <<>>)

Chose(choice, outcome) ==
    Report("reinit", <<>>, choice, outcome, <<>>, NoChild, <<>>)

(***************************************************************************)
(* Initial states: the settings and the storage roots as found on disk     *)
(* when the tool starts.  Settings are the defaults, with the dialect as   *)
(* the settings file holds it.  A registry found on disk is laid out as    *)
(* the write path of createFlow (lines 183-197) lays it out: names are     *)
(* distinct, script paths are absolute and each script file is in place.   *)
(* Flow "a" runs in a directory that exists, flow "b" in one that was      *)
(* removed since.                                                          *)
(***************************************************************************)
InitNames == {<<>>, << <<"a">> >>, << <<"a">>, <<"b">> >>, << <<"b">>, <<"a">> >>}

WorkDirOf(flowName) == IF flowName = <<"a">> THEN "proj" ELSE "gone"

StoredFlows(root, names) ==
    [i \in 1..Len(names) |->
        FlowRecord(names[i], WorkDirOf(names[i]),
                   ScriptFile(CommandFolder(CommandDir(root), names[i]), ".sh"))]

StoredTree(root, names) ==
    [exists  |-> TRUE,
     flows   |-> JsonFile(StoredFlows(root, names)),
     folders |-> {names[i] : i \in 1..Len(names)},
     scripts |-> {[folder |-> names[i], ext |-> ".sh",
                   text |-> ScriptContent("bash", <<"x">>)] : i \in 1..Len(names)}]

InitTrees(root) ==
    {AbsentTree, EmptyTree, [EmptyTree EXCEPT !.flows = CorruptFile]}
        \cup {StoredTree(root, names) : names \in InitNames}

Init ==
    /\ \E profile \in InitProfiles :
           config = [DefaultConfig EXCEPT !.terminalProfile = profile]
    /\ \E home \in InitTrees("home"), alt \in {AbsentTree, StoredTree("alt", << <<"b">> >>)} :
           fs = [root \in Roots |-> IF root = "home" THEN home ELSE alt]
    /\ cwd = "shell"
    /\ last = [op |-> "none", arg |-> <<>>, choice |-> "", outcome |-> "",
               listing |-> <<>>, child |-> NoChild, console |-> <<>>,
               startDir |-> cwd]

(***************************************************************************)
(* init (initialize, lines 39-71)                                          *)
(***************************************************************************)
Initialized(cfg, profile, location) ==
    [cfg EXCEPT !.terminalProfile = profile,
                !.flowDir = location,
                !.flowCommandDir = CommandDir(location),
                !.initialized = TRUE]

Initialize(profile, location) ==
    /\ IF config.initialized
       THEN /\ last' = Say("init", <<>>, "Flow manager is already initialized.")
            /\ UNCHANGED config
       ELSE /\ config' = Initialized(config, profile, location)
            /\ last' = Say("init", <<>>, "Flow manager initialized successfully!")
    /\ UNCHANGED <<fs, cwd>>

(***************************************************************************)
(* default (resetConfig, lines 454-462)                                    *)
(***************************************************************************)
ResetConfig ==
    /\ config' = DefaultConfig
    /\ last' = Say("default", <<>>, "")
    /\ UNCHANGED <<fs, cwd>>

(***************************************************************************)
(* list (listFlows, lines 205-224)                                         *)
(***************************************************************************)
ListFlows ==
    /\ IF ~config.initialized
       THEN last' = Say("list", <<>>, NotInitialized)
       ELSE LET flows == LoadFlows(config, fs)
            IN  IF Len(flows) = 0
                THEN last' = Say("list", <<>>, "No flows found.")
                ELSE last' = Report("list", <<>>, "", "List of flows:",
                                    ListedNames(flows), NoChild, <<>>)
    /\ UNCHANGED <<config, fs, cwd>>

(***************************************************************************)
(* run and edit (runFlow, lines 226-261; openFlowForEditing, 409-443)      *)
(***************************************************************************)
\* What the child process did.  promisify(exec) rejects when the process
\* could not be spawned or exited with a non-zero status; the rejection's
\* message names the command and carries the captured standard error.
ExecResults ==
    {[spawned |-> TRUE,  exit |-> 0, stdout |-> "out", stderr |-> ""],
     [spawned |-> TRUE,  exit |-> 0, stdout |-> "out", stderr |-> "diag"],
     [spawned |-> TRUE,  exit |-> 1, stdout |-> "out", stderr |-> "diag"],
     [spawned |-> TRUE,  exit |-> 1, stdout |-> "",    stderr |-> ""],
     [spawned |-> FALSE, exit |-> 0, stdout |-> "",    stderr |-> ""]}

\* Variant of Rejects: output on standard error counts as a failure.
RejectsOnStderr(result) ==
    ~result.spawned \/ result.exit # 0 \/ result.stderr # ""

Rejects(result) == ~result.spawned \/ result.exit # 0

ErrorMessage(result) == <<"Command failed", result.stderr>>

\* try / catch of lines 249-256 and 431-438
ExecConsole(errorPrefix, result) ==
    IF Rejects(result)
    THEN << [stream |-> "error", text |-> <<errorPrefix>> \o ErrorMessage(result)] >>
    ELSE << [stream |-> "log", text |-> <<result.stdout>>] >>
         \o (IF result.stderr # ""
             THEN << [stream |-> "error", text |-> <<result.stderr>>] >>
             ELSE <<>>)

ExecOutcome(errorPrefix, result) ==
    IF Rejects(result) THEN errorPrefix ELSE "Finished."

\* Variant of RestoreDir: the directory is restored only after a child that
\* did not fail.
RestoreDirOnSuccess(currentDir, enteredDir, result) ==
    IF ~result.spawned \/ result.exit # 0 THEN enteredDir ELSE currentDir

\* finally of lines 257-260 and 439-442: process.chdir(currentDir)
RestoreDir(currentDir, enteredDir, result) == currentDir

InDirectory(op, flowName, errorPrefix) ==
    /\ IF ~config.initialized
       THEN /\ last' = Say(op, flowName, NotInitialized)
            /\ UNCHANGED cwd
       ELSE LET flows == LoadFlows(config, fs)
                flowIndex == FindIndex(flows, flowName)
            IN  IF flowIndex = -1
                THEN /\ last' = Say(op, flowName, "Flow not found")
                     /\ UNCHANGED cwd
                ELSE LET flow == flows[flowIndex + 1]
                         currentDir == cwd
                     IN  IF flow.path \notin ExistingDirs
                         THEN \* process.chdir(flow.path) throws, lines 245, 427
                              /\ last' = Say(op, flowName, "chdir failed")
                              /\ UNCHANGED cwd
                         ELSE \E result \in ExecResults :
                              /\ cwd' = RestoreDir(currentDir, flow.path, result)
                              /\ last' = Report(op, flowName, "",
                                                ExecOutcome(errorPrefix, result), <<>>,
                                                result,
                                                ExecConsole(errorPrefix, result))
    /\ UNCHANGED <<config, fs>>

RunFlow(flowName) ==
    InDirectory("run", flowName, "Error running flow:")

OpenFlowForEditing(flowName) ==
    InDirectory("edit", flowName, "Error opening flow for editing:")

(***************************************************************************)
(* delete (deleteFlow, lines 263-292)                                      *)
(***************************************************************************)
\* fs.rm(flow.script, { recursive: true }), line 284: removes the script
\* file; without force a missing file is an error.
RmSucceeds(disk, scriptFile, rmOk) == rmOk /\ ScriptExists(disk, scriptFile)

Rm(disk, scriptFile) ==
    [disk EXCEPT ![RootOf(scriptFile)].scripts =
        {f \in @ : ~(f.folder = FolderOf(scriptFile) /\ f.ext = scriptFile.ext)}]

\* Variant of DeleteEffect: the record is spliced out and saved before the
\* script file is removed.
DeleteEffectRecordFirst(cfg, disk, flows, flowIndex, rmOk, writeOk) ==
    LET flow == flows[flowIndex + 1]
        saved == SaveFlows(cfg, disk, Splice(flows, flowIndex), writeOk)
    IN  IF RmSucceeds(disk, flow.script, rmOk)
        THEN Rm(saved, flow.script)
        ELSE saved

\* try block of lines 283-288: rm, then splice, then saveFlows
DeleteEffect(cfg, disk, flows, flowIndex, rmOk, writeOk) ==
    LET flow == flows[flowIndex + 1]
    IN  IF RmSucceeds(disk, flow.script, rmOk)
        THEN SaveFlows(cfg, Rm(disk, flow.script), Splice(flows, flowIndex), writeOk)
        ELSE disk

DeleteFlow(flowName) ==
    /\ IF ~config.initialized
       THEN /\ last' = Say("delete", flowName, NotInitialized)
            /\ UNCHANGED fs
       ELSE LET flows == LoadFlows(config, fs)
                flowIndex == FindIndex(flows, flowName)
            IN  IF flowIndex = -1
                THEN /\ last' = Say("delete", flowName, "Flow not found")
                     /\ UNCHANGED fs
                ELSE \E rmOk, writeOk \in BOOLEAN :
                     /\ fs' = DeleteEffect(config, fs, flows, flowIndex, rmOk, writeOk)
                     /\ last' = Say("delete", flowName,
                                    IF RmSucceeds(fs, flows[flowIndex + 1].script, rmOk)
                                    THEN "Flow deleted successfully!"
                                    ELSE "Error deleting flow:")
    /\ UNCHANGED <<config, cwd>>

(***************************************************************************)
(* create (createFlow, lines 73-203)                                       *)
(***************************************************************************)
\* Calling the async loadFlows yields a promise, not the array.
Call(flows) == [kind |-> "promise", data |-> flows]

\* validate of the flow-name question, lines 113-129 (and 88-104).  Line 119
\* calls loadFlows() without await, so `flows` is the promise: it has no find
\* method, flows.find(...) throws a TypeError, and the catch of line 126
\* answers with the invalid-name message.  "true" stands for the boolean.
ValidateFlowName(value, cfg, disk) ==
    IF ~NamePatternTest(value)
    THEN "Please enter a valid flow name"
    ELSE LET flows == Call(LoadFlows(cfg, disk))
         IN  IF flows.kind # "array"
             THEN "Please enter a valid flow name"
             ELSE IF \E i \in 1..Len(flows.data) : flows.data[i].name = value
                  THEN "Flow name already exists"
                  ELSE "true"

\* Variant of DefaultCase: the default case does not return.
DefaultCaseFallsThrough(profile) == FALSE

\* default of the switch, lines 177-179: no case matched
DefaultCase(profile) == ~KnownProfile(profile)

\* validate of the flow-path question, lines 136-143
ValidateFlowPath(value) ==
    IF value \in ExistingDirs THEN "true" ELSE "Please enter a valid path"

\* fs.mkdir(commandFolder, { recursive: true }), line 186
Mkdir(disk, commandFolder) ==
    [disk EXCEPT ![commandFolder[1]].exists = TRUE,
                 ![commandFolder[1]].folders = @ \cup {commandFolder[3]}]

\* fs.writeFile(scriptFile, scriptContent), line 188
WriteFile(disk, scriptFile, text) ==
    [disk EXCEPT ![RootOf(scriptFile)].scripts =
        {f \in @ : ~(f.folder = FolderOf(scriptFile) /\ f.ext = scriptFile.ext)}
            \cup {[folder |-> FolderOf(scriptFile), ext |-> scriptFile.ext,
                   text |-> text]}]

\* Variant of CreateEffect: the record is appended and saved before the
\* folder and the script file are made.
CreateEffectRecordFirst(cfg, disk, flowName, flowPath, commands, mkdirOk, writeOk, saveOk) ==
    LET commandFolder == CommandFolder(cfg.flowCommandDir, flowName)
        scriptFile == ScriptFile(commandFolder,
                                 ScriptFileExtension(cfg.terminalProfile))
        flows == Append(LoadFlows(cfg, disk),
                        FlowRecord(flowName, flowPath, scriptFile))
        saved == SaveFlows(cfg, disk, flows, saveOk)
        made == Mkdir(saved, commandFolder)
    IN  IF ~mkdirOk THEN saved
        ELSE IF ~writeOk THEN made
        ELSE WriteFile(made, scriptFile,
                       ScriptContent(cfg.terminalProfile, commands))

\* try block of lines 185-199
CreateEffect(cfg, disk, flowName, flowPath, commands, mkdirOk, writeOk, saveOk) ==
    LET commandFolder == CommandFolder(cfg.flowCommandDir, flowName)
        scriptFile == ScriptFile(commandFolder,
                                 ScriptFileExtension(cfg.terminalProfile))
        made == Mkdir(disk, commandFolder)
        written == WriteFile(made, scriptFile,
                             ScriptContent(cfg.terminalProfile, commands))
        flows == Append(LoadFlows(cfg, written),
                        FlowRecord(flowName, flowPath, scriptFile))
    IN  IF ~mkdirOk THEN disk
        ELSE IF ~writeOk THEN made
        ELSE SaveFlows(cfg, written, flows, saveOk)

CreateFlow(value) ==
    /\ IF ~config.initialized
       THEN /\ last' = Say("create", value, NotInitialized)
            /\ UNCHANGED fs
       ELSE IF ValidateFlowName(value, config, fs) # "true"
       THEN \* the prompt keeps asking; nothing below line 152 runs
            /\ last' = Say("create", value, ValidateFlowName(value, config, fs))
            /\ UNCHANGED fs
       ELSE \E flowPath \in ExistingDirs \cup WorkDirs :
            IF ValidateFlowPath(flowPath) # "true"
            THEN /\ last' = Say("create", value, ValidateFlowPath(flowPath))
                 /\ UNCHANGED fs
            ELSE IF DefaultCase(config.terminalProfile)
            THEN /\ last' = Say("create", value, "Invalid terminal profile selected.")
                 /\ UNCHANGED fs
            ELSE \E commands \in CommandInputs, mkdirOk, writeOk, saveOk \in BOOLEAN :
                 /\ fs' = CreateEffect(config, fs, value, flowPath, commands,
                                       mkdirOk, writeOk, saveOk)
                 /\ last' = Say("create", value,
                                IF mkdirOk /\ writeOk
                                THEN "Flow created successfully!"
                                ELSE "Error creating flow:")
    /\ UNCHANGED <<config, cwd>>

(***************************************************************************)
(* reinit (reinitialize, lines 324-407)                                    *)
(***************************************************************************)
\* mv / Move-Item / move of the storage root, lines 359-365.  A root cannot be
\* moved onto itself; a destination that is already a directory receives the
\* old root as a sub-directory, which no path of the tool refers to.
MoveRoot(disk, from, to) ==
    IF from = to THEN disk
    ELSE IF disk[to].exists THEN [disk EXCEPT ![from] = AbsentTree]
    ELSE [disk EXCEPT ![to] = disk[from], ![from] = AbsentTree]

\* rm -rf / Remove-Item / rmdir of the storage root, lines 383-389
RemoveRoot(disk, root) == [disk EXCEPT ![root] = AbsentTree]

\* lines 371-373
Relocated(cfg, location) ==
    [cfg EXCEPT !.flowDir = location,
                !.flowCommandDir = CommandDir(location),
                !.initialized = TRUE]

\* `location` is the answer to the new-location prompt.  `moved` says whether
\* the move command did its work, `threw` whether execSync raised: the command
\* line ends in an echo, so its exit status is not that of the move.  `removed`
\* says whether the un-awaited removal did its work.  `profile` and
\* `newLocation` are the answers given to initialize (line 401).
Reinitialize(choice) ==
    LET flows == LoadFlows(config, fs)
    IN  /\ IF Len(flows) = 0
           THEN /\ last' = Say("reinit", <<>>, "")
                /\ UNCHANGED <<config, fs>>
           ELSE IF choice = "Move To New Location"
           THEN \E location \in Roots :
                IF KnownProfile(config.terminalProfile)
                THEN \E moved, threw \in BOOLEAN :
                     /\ fs' = IF moved THEN MoveRoot(fs, config.flowDir, location)
                                       ELSE fs
                     /\ IF threw
                        THEN /\ last' = Chose(choice, "execSync failed")
                             /\ UNCHANGED config
                        ELSE /\ last' = Chose(choice, "settings updated")
                             /\ config' = Relocated(config, location)
                ELSE /\ last' = Chose(choice, "Invalid terminal profile selected.")
                     /\ config' = Relocated(config, location)
                     /\ UNCHANGED fs
           ELSE IF choice = "Delete Existing Flows"
           THEN IF KnownProfile(config.terminalProfile)
                THEN \E removed \in BOOLEAN, profile \in ProfileChoices,
                        newLocation \in Roots :
                     /\ fs' = IF removed THEN RemoveRoot(fs, config.flowDir) ELSE fs
                     /\ config' = Initialized([config EXCEPT !.initialized = FALSE],
                                              profile, newLocation)
                     /\ last' = Chose(choice, "Flow manager initialized successfully!")
                ELSE /\ last' = Chose(choice, "Invalid terminal profile selected.")
                     /\ UNCHANGED <<config, fs>>
           ELSE /\ last' = Chose(choice, "")
                /\ UNCHANGED <<config, fs>>
        /\ UNCHANGED cwd

(***************************************************************************)
(* Specification                                                           *)
(***************************************************************************)
Next ==
    \/ \E profile \in ProfileChoices, location \in Roots :
           Initialize(profile, location)
    \/ ResetConfig
    \/ ListFlows
    \/ \E value \in InputNames : CreateFlow(value)
    \/ \E flowName \in InputNames : RunFlow(flowName)
    \/ \E flowName \in InputNames : OpenFlowForEditing(flowName)
    \/ \E flowName \in InputNames : DeleteFlow(flowName)
    \/ \E choice \in Choices : Reinitialize(choice)

Spec == Init /\ [][Next]_vars

(***************************************************************************)
(* The steps behind the prompts, on their own.                             *)
(*                                                                         *)
(* In Spec the name prompt of create accepts nothing, so lines 153-202 do  *)
(* not run there.  SpecAnswered enters them with the answers in hand: the  *)
(* name is one for which the validator is written to return true (pattern  *)
(* matched, no record of that name, lines 115-124), the path an existing   *)
(* directory (lines 136-143).  It also applies the script generation of    *)
(* lines 155-180 to every command string, and saveFlows to what loadFlows  *)
(* returns.  Settings are initialized and the root is "home".              *)
(***************************************************************************)
Accepted(value, cfg, disk) ==
    /\ NamePatternTest(value)
    /\ \A i \in 1..Len(LoadFlows(cfg, disk)) : LoadFlows(cfg, disk)[i].name # value

\* switch of lines 155-180
GenerateScript(commands) ==
    /\ IF KnownProfile(config.terminalProfile)
       THEN last' = Report("generate", commands, "",
                           ScriptFileExtension(config.terminalProfile), <<>>, NoChild,
                           << [stream |-> "script",
                               text |-> ScriptContent(config.terminalProfile,
                                                      commands)] >>)
       ELSE last' = Say("generate", commands, "Invalid terminal profile selected.")
    /\ UNCHANGED <<config, fs, cwd>>

\* lines 153-202; `failure` names the call of the try block that fails
CreateAnswered(flowName, flowPath) ==
    /\ config.initialized
    /\ Accepted(flowName, config, fs)
    /\ ValidateFlowPath(flowPath) = "true"
    /\ IF DefaultCase(config.terminalProfile)
       THEN /\ last' = Say("create", flowName, "Invalid terminal profile selected.")
            /\ UNCHANGED fs
       ELSE \E commands \in CommandInputs,
               failure \in {"none", "mkdir", "writeFile", "saveFlows"} :
            /\ fs' = CreateEffect(config, fs, flowName, flowPath, commands,
                                  failure # "mkdir", failure # "writeFile",
                                  failure # "saveFlows")
            /\ last' = Say("create", flowName,
                           IF failure \in {"mkdir", "writeFile"}
                           THEN "Error creating flow:"
                           ELSE "Flow created successfully!")
    /\ UNCHANGED <<config, cwd>>

\* saveFlows(await loadFlows()), lines 294-322
RoundTrip(writeOk) ==
    /\ fs' = SaveFlows(config, fs, LoadFlows(config, fs), writeOk)
    /\ last' = Say("save(load())", <<>>, "")
    /\ UNCHANGED <<config, cwd>>

InitAnswered ==
    /\ \E profile \in ProfileChoices \cup InitProfiles :
           config = [DefaultConfig EXCEPT !.terminalProfile = profile,
                                          !.initialized = TRUE]
    /\ \E home \in InitTrees("home") :
           fs = [root \in Roots |-> IF root = "home" THEN home ELSE AbsentTree]
    /\ cwd = "shell"
    /\ last = [op |-> "none", arg |-> <<>>, choice |-> "", outcome |-> "",
               listing |-> <<>>, child |-> NoChild, console |-> <<>>,
               startDir |-> cwd]

NextAnswered ==
    \/ \E commands \in CommandStrings : GenerateScript(commands)
    \/ \E flowName \in AnswerNames, flowPath \in ExistingDirs :
           CreateAnswered(flowName, flowPath)
    \/ \E writeOk \in BOOLEAN : RoundTrip(writeOk)

SpecAnswered == InitAnswered /\ [][NextAnswered]_vars

(***************************************************************************)
(* Vocabulary of the properties                                            *)
(***************************************************************************)
\* The records stored in the registry file under the configured root.
Registry(cfg, disk) == disk[cfg.flowDir].flows.data

NamesIn(flows) == {flows[i].name : i \in 1..Len(flows)}

Occurrences(flows, flowName) ==
    Cardinality({i \in 1..Len(flows) : flows[i].name = flowName})

NoDuplicateNames ==
    \A root \in Roots :
        \A i, j \in 1..Len(fs[root].flows.data) :
            fs[root].flows.data[i].name = fs[root].flows.data[j].name => i = j

RecordOf(flows, flowName) ==
    CHOOSE r \in {flows[i] : i \in 1..Len(flows)} : r.name = flowName

(***************************************************************************)
(* C1: names stay unique in the registry, and a create whose name is       *)
(* already in the registry is rejected as a duplicate (the message "Flow   *)
(* name already exists") and leaves the registry and the disk unchanged.   *)
(* The code rejects the name, but with the message of an invalid name.     *)
(***************************************************************************)
C1_DuplicateStep ==
    (/\ last'.op = "create"
     /\ config.initialized
     /\ last'.arg \in NamesIn(Registry(config, fs)))
    => (/\ last'.outcome = "Flow name already exists"
        /\ fs' = fs)

C1_DuplicateRejected == []NoDuplicateNames /\ [][C1_DuplicateStep]_vars

(***************************************************************************)
(* C2: with settings initialized and a known dialect, create of a name     *)
(* that matches the pattern and is not in the registry is accepted and     *)
(* ends with that name in the registry exactly once.                       *)
(* The code accepts no name at all.                                        *)
(***************************************************************************)
C2_CreateStep ==
    (/\ last'.op = "create"
     /\ config.initialized
     /\ KnownProfile(config.terminalProfile)
     /\ NamePatternTest(last'.arg)
     /\ last'.arg \notin NamesIn(Registry(config, fs)))
    => (/\ last'.outcome \notin {"Please enter a valid flow name",
                                  "Flow name already exists"}
        /\ Occurrences(Registry(config', fs'), last'.arg) = 1)

C2_CreateThenListed == [][C2_CreateStep]_vars

(***************************************************************************)
(* C3: when run or edit of an existing flow returns, the working directory *)
(* is the one the handler was entered with: after a successful subprocess, *)
(* after a failed one, and when the directory change itself failed.        *)
(***************************************************************************)
C3_DirectoryRestored ==
    (/\ last.op \in {"run", "edit"}
     /\ last.outcome \notin {NotInitialized, "Flow not found"})
    => cwd = last.startDir

C3_Witness ==
    /\ last.op = "run"
    /\ last.outcome = "Error running flow:"
    /\ RecordOf(Registry(config, fs), last.arg).path # last.startDir
    /\ cwd = last.startDir

(***************************************************************************)
(* C4: delete removes the script file before the record.  When the file    *)
(* removal fails the disk and the registry are as before and the flow is   *)
(* still listed; the record leaves the registry only in a step that        *)
(* removed the file, and then the name is no longer in the registry.       *)
(***************************************************************************)
C4_DeleteStep ==
    (/\ last'.op = "delete"
     /\ config.initialized
     /\ last'.arg \in NamesIn(Registry(config, fs)))
    => LET flow == RecordOf(Registry(config, fs), last'.arg)
           fileRemoved == ScriptExists(fs, flow.script) /\ ~ScriptExists(fs', flow.script)
       IN  /\ ~fileRemoved
              => (/\ fs' = fs
                  /\ last'.outcome = "Error deleting flow:"
                  /\ last'.arg \in NamesIn(Registry(config', fs')))
           /\ Registry(config', fs') # Registry(config, fs)
              => (/\ fileRemoved
                  /\ last'.outcome = "Flow deleted successfully!"
                  /\ last'.arg \notin NamesIn(Registry(config', fs')))

C4_FileBeforeRecord == [][C4_DeleteStep]_vars

C4_Witness ==
    /\ last.op = "delete"
    /\ last.outcome = "Error deleting flow:"
    /\ last.arg \in NamesIn(Registry(config, fs))
    /\ ScriptExists(fs, RecordOf(Registry(config, fs), last.arg).script)

(***************************************************************************)
(* C5: delete of a name that is not in the registry reports "Flow not      *)
(* found" and changes neither the registry nor any file nor the settings.  *)
(***************************************************************************)
C5_DeleteMissingStep ==
    (/\ last'.op = "delete"
     /\ config.initialized
     /\ last'.arg \notin NamesIn(Registry(config, fs)))
    => (/\ last'.outcome = "Flow not found"
        /\ fs' = fs
        /\ config' = config)

C5_DeleteMissingIsNoOp == [][C5_DeleteMissingStep]_vars

C5_Witness ==
    /\ last.op = "delete"
    /\ last.outcome = "Flow not found"
    /\ Len(Registry(config, fs)) >= 1

(***************************************************************************)
(* C6: create, list, run, delete, edit and reinit, entered with settings   *)
(* not initialized, change neither the settings nor anything on disk.      *)
(* reinitialize has no such gate.                                          *)
(***************************************************************************)
C6_GatedStep ==
    (/\ ~config.initialized
     /\ last'.op \in {"create", "list", "run", "delete", "edit", "reinit"})
    => (config' = config /\ fs' = fs)

C6_UninitializedNoMutation == [][C6_GatedStep]_vars

(***************************************************************************)
(* C7: reinit entered while the registry holds no flow does not ask the    *)
(* Move/Delete/Cancel question and ends with settings initialized.         *)
(* The code does nothing at all in that case.                              *)
(***************************************************************************)
C7_EmptyReinitStep ==
    (/\ last'.op = "reinit"
     /\ Len(Registry(config, fs)) = 0)
    => (/\ last'.choice = ""
        /\ config'.initialized)

C7_EmptyReinitInitializes == [][C7_EmptyReinitStep]_vars

(***************************************************************************)
(* C8: after reinit with the Move choice has moved the root and updated    *)
(* the settings, every flow of the registry before the move is in the      *)
(* registry read from the new root, and its script file exists on disk.    *)
(* The records keep the absolute script paths under the old root.          *)
(***************************************************************************)
C8_MoveStep ==
    (/\ last'.op = "reinit"
     /\ last'.choice = "Move To New Location"
     /\ last'.outcome = "settings updated"
     /\ fs[config.flowDir].exists
     /\ ~fs'[config.flowDir].exists)
    => \A i \in 1..Len(Registry(config, fs)) :
           LET name == Registry(config, fs)[i].name
               moved == LoadFlows(config', fs')
           IN  /\ name \in NamesIn(moved)
               /\ ScriptExists(fs', RecordOf(moved, name).script)

C8_MoveKeepsFlowsUsable == [][C8_MoveStep]_vars

C10_Listing ==
    (last.op = "list" /\ config.initialized)
    => /\ Len(last.listing) = Len(Registry(config, fs))
       /\ \A i \in 1..Len(last.listing) :
              last.listing[i] = Registry(config, fs)[i].name

C10_OrderStep ==
    last'.op \in {"create", "delete"}
    => LET before == Registry(config, fs)
           after == Registry(config', fs')
       IN  \/ after = before
           \/ \E k \in 1..Len(before) :
                 after = [i \in 1..(Len(before) - 1) |->
                             IF i < k THEN before[i] ELSE before[i + 1]]
           \/ /\ Len(after) = Len(before) + 1
              /\ SubSeq(after, 1, Len(before)) = before

RECURSIVE SplitOn(_, _)
SplitOn(text, ch) ==
    IF \E i \in 1..Len(text) : text[i] = ch
    THEN LET k == CHOOSE i \in 1..Len(text) :
                     text[i] = ch /\ \A j \in 1..(i - 1) : text[j] # ch
         IN  <<SubSeq(text, 1, k - 1)>> \o SplitOn(SubSeq(text, k + 1, Len(text)), ch)
    ELSE <<text>>

RECURSIVE JoinWith(_, _)
JoinWith(parts, sep) ==
    IF Len(parts) = 1 THEN parts[1]
    ELSE parts[1] \o sep \o JoinWith(Tail(parts), sep)

TableHeader(dialect) ==
    CASE dialect = "bash"       -> "#!/bin/bash"
      [] dialect = "zsh"        -> "#!/bin/zsh"
      [] dialect = "powershell" -> "# PowerShell script content here"
      [] dialect = "cmd"        -> "@echo off"

TableJoin(dialect) ==
    IF dialect \in {"bash", "zsh"} THEN <<"\n", "\n">> ELSE <<"\n">>

TableExtension(dialect) ==
    CASE dialect \in {"bash", "zsh"} -> ".sh"
      [] dialect = "powershell"      -> ".ps1"
      [] dialect = "cmd"             -> ".bat"

C11_GeneratedScript ==
    (last.op = "generate" /\ KnownProfile(config.terminalProfile))
    => /\ last.console[1].text
            = <<TableHeader(config.terminalProfile), "\n", "\n">>
                \o JoinWith(SplitOn(last.arg, ","), TableJoin(config.terminalProfile))
       /\ last.outcome = TableExtension(config.terminalProfile)

C11_Witness ==
    /\ last.op = "generate"
    /\ config.terminalProfile = "cmd"
    /\ last.arg = <<"x", ",", "y">>
    /\ last.console[1].text = <<"@echo off", "\n", "\n", "x", "\n", "y">>

(***************************************************************************)
(* C12: when making the per-flow folder or writing the script fails,       *)
(* create ends with the registry file as it was and no record of the new   *)
(* name; the registry changes only in a step that left the script file in  *)
(* place.                                                                  *)
(***************************************************************************)
C12_CreateStep ==
    last'.op = "create"
    => LET scriptFile ==
               ScriptFile(CommandFolder(config.flowCommandDir, last'.arg),
                          ScriptFileExtension(config.terminalProfile))
       IN  /\ last'.outcome = "Error creating flow:"
              => (/\ fs'[config.flowDir].flows = fs[config.flowDir].flows
                  /\ last'.arg \notin NamesIn(Registry(config', fs')))
           /\ fs'[config.flowDir].flows # fs[config.flowDir].flows
              => (/\ ScriptExists(fs', scriptFile)
                  /\ last'.outcome = "Flow created successfully!")

C12_FailedCreateKeepsRegistry == [][C12_CreateStep]_vars

C12_Witness ==
    /\ last.op = "create"
    /\ last.outcome = "Error creating flow:"
    /\ last.arg \in fs[config.flowDir].folders
    /\ ~ScriptExists(fs, ScriptFile(CommandFolder(config.flowCommandDir, last.arg),
                                    ScriptFileExtension(config.terminalProfile)))
    /\ Len(Registry(config, fs)) >= 1
    /\ last.arg \notin NamesIn(Registry(config, fs))

(***************************************************************************)
(* C13: after a delete that reports success, neither the script file of    *)
(* the flow nor its per-flow folder is on disk.                            *)
(* The code removes the script file only.                                  *)
(***************************************************************************)
C13_DeleteStep ==
    (/\ last'.op = "delete"
     /\ last'.outcome = "Flow deleted successfully!")
    => LET flow == RecordOf(Registry(config, fs), last'.arg)
       IN  /\ ~ScriptExists(fs', flow.script)
           /\ FolderOf(flow.script) \notin fs'[RootOf(flow.script)].folders

C13_DeleteRemovesFolder == [][C13_DeleteStep]_vars

(***************************************************************************)
(* C14: when reinit with the Delete choice has completed, the old storage  *)
(* root is gone, none of the flows it held is in the registry or on disk,  *)
(* and settings are initialized; a removal that failed does not end in the *)
(* success message.                                                        *)
(* The removal is started and never waited for, and its failure is         *)
(* ignored.                                                                *)
(***************************************************************************)
C14_DeleteChoiceStep ==
    (/\ last'.op = "reinit"
     /\ last'.choice = "Delete Existing Flows"
     /\ last'.outcome = "Flow manager initialized successfully!")
    => /\ ~fs'[config.flowDir].exists
       /\ config'.initialized
       /\ \A i \in 1..Len(Registry(config, fs)) :
              /\ Registry(config, fs)[i].name \notin NamesIn(LoadFlows(config', fs'))
              /\ ~ScriptExists(fs', Registry(config, fs)[i].script)

C14_DeleteChoiceRemovesRoot == [][C14_DeleteChoiceStep]_vars

(***************************************************************************)
(* C15: a registry file whose content does not parse is not read as an     *)
(* empty registry: list does not answer "No flows found." over it.         *)
(* loadFlows logs the parse error and returns the empty list.              *)
(***************************************************************************)
C15_CorruptNotEmpty ==
    (/\ last.op = "list"
     /\ config.initialized
     /\ fs[config.flowDir].flows.state = "corrupt")
    => last.outcome # "No flows found."

(***************************************************************************)
(* C16: when the registry write fails, delete does not end in its success  *)
(* message: a delete that removed the script file but left the registry    *)
(* file as it was reports the failure.                                     *)
(* saveFlows logs the write error and returns normally.                    *)
(***************************************************************************)
C16_DeleteStep ==
    (/\ last'.op = "delete"
     /\ config.initialized
     /\ last'.arg \in NamesIn(Registry(config, fs))
     /\ ScriptExists(fs, RecordOf(Registry(config, fs), last'.arg).script)
     /\ ~ScriptExists(fs', RecordOf(Registry(config, fs), last'.arg).script)
     /\ fs'[config.flowDir].flows = fs[config.flowDir].flows)
    => last'.outcome # "Flow deleted successfully!"

C16_WriteFailureReachesCaller == [][C16_DeleteStep]_vars

(***************************************************************************)
(* C17: with a dialect that is none of the four, create ends with the      *)
(* message "Invalid terminal profile selected." and the disk as it was: no *)
(* folder, no script file, no record.                                      *)
(***************************************************************************)
C17_UnknownDialectStep ==
    (/\ last'.op = "create"
     /\ config.terminalProfile \notin {"bash", "zsh", "powershell", "cmd"})
    => (/\ last'.outcome = "Invalid terminal profile selected."
        /\ fs' = fs)

C17_UnknownDialectIsError == [][C17_UnknownDialectStep]_vars

C17_Witness ==
    /\ last.op = "create"
    /\ config.terminalProfile = "fish"
    /\ last.outcome = "Invalid terminal profile selected."

(***************************************************************************)
(* C18: saveFlows of what loadFlows returns leaves the registry with the   *)
(* same records in the same order, whether the file was absent, held the   *)
(* empty list or held records; nothing else on disk changes.  (An absent   *)
(* file may come to exist, holding the empty list.)                        *)
(***************************************************************************)
C18_RoundTripStep ==
    (/\ last'.op = "save(load())"
     /\ fs[config.flowDir].flows.state # "corrupt")
    => LET before == fs[config.flowDir].flows
           after == fs'[config.flowDir].flows
       IN  /\ after.data = before.data
           /\ after.state \in {before.state, "json"}
           /\ fs' = [fs EXCEPT ![config.flowDir].flows = after]

C19_MoveStep ==
    (/\ last'.op = "reinit"
     /\ last'.choice = "Move To New Location"
     /\ config'.flowDir # config.flowDir)
    => (/\ fs[config.flowDir].exists
        /\ ~fs'[config.flowDir].exists)

C19_SettingsFollowMove == [][C19_MoveStep]_vars

(***************************************************************************)
(* C20: a delete of a record whose script file is already missing removes  *)
(* the record, or at least gets past the file removal.                     *)
(* fs.rm without force fails on the missing file, so the record stays.     *)
(***************************************************************************)
C20_DanglingStep ==
    (/\ last'.op = "delete"
     /\ config.initialized
     /\ last'.arg \in NamesIn(Registry(config, fs))
     /\ ~ScriptExists(fs, RecordOf(Registry(config, fs), last'.arg).script))
    => \/ last'.arg \notin NamesIn(Registry(config', fs'))
       \/ last'.outcome = "Flow deleted successfully!"

C20_DanglingRecordRemovable == [][C20_DanglingStep]_vars

====
